---- MODULE Spec2Model ----
(***************************************************************************)
(* Model of crates/ra_ide/src/completion/complete_trait_impl.rs: the       *)
(* "implement missing trait items" completion.  One completion request is  *)
(* one behaviour: Init fixes the request (the completion context and the   *)
(* accumulator handed in by the caller), complete_trait_impl is the whole  *)
(* handler.                                                                *)
(***************************************************************************)
EXTENDS Naturals, Sequences, FiniteSets, TLC

VARIABLES
    ctx,            \* &CompletionContext: impl_block, function_syntax, offset, analyzer, db
    acc,            \* &mut Completions: the sequence of CompletionItems
    pc,             \* "start" | "returned" | "panicked"
    target_trait,   \* local of complete_trait_impl: Option<hir::Trait>
    missing_items,  \* local of complete_trait_impl: the filtered trait items
    origin,         \* for each item this request pushed onto acc, the id of its trait item
    resolve_calls   \* number of calls of resolve_target_trait

vars == <<ctx, acc, pc, target_trait, missing_items, origin, resolve_calls>>

----------------------------------------------------------------------------
(* Bounds of the model. *)

MaxTraitItems == 3
MaxImplItems == 2
MaxGateItems == 1
MaxStubItems == 1

----------------------------------------------------------------------------
(* Option<T>: None is the empty sequence, Some(x) the one-element one. *)

None == <<>>
Some(x) == <<x>>
is_none(o) == o = <<>>
is_some(o) == o # <<>>
unwrap(o) == o[1]

(* Iterator::find: the first element of s whose predicate value is true,  *)
(* if any; hit[k] is the value of the closure on s[k].                     *)
find(s, hit) ==
    IF \E k \in 1..Len(s) : hit[k]
    THEN Some(s[CHOOSE k \in 1..Len(s) : hit[k] /\ \A j \in 1..(k - 1) : ~hit[j]])
    ELSE None

(* All sequences over S of length at most n. *)
SeqsUpTo(S, n) == UNION {[1..k -> S] : k \in 0..n}

----------------------------------------------------------------------------
(* Names.  A hir::Name holds its text; an ast::Name is a NAME node whose   *)
(* syntax text is the identifier.                                          *)

HirName(t) == [repr |-> "Text", text |-> t]
name_to_string(n) == n.text

AstName(t) == [syntax |-> [kind |-> "NAME", text |-> t]]
syntax_to_string(n) == n.syntax.text

----------------------------------------------------------------------------
(* The semantic side: trait items (hir::AssocItem).                        *)

Function(name, params, has_self, generics, ret, wheres, docs) ==
    [kind |-> "Function", name |-> HirName(name), params |-> params,
     has_self_param |-> has_self, generic_parameters |-> generics,
     ret_type |-> ret, where_predicates |-> wheres, docs |-> docs]

Const(name, docs) ==
    [kind |-> "Const",
     name |-> IF is_some(name) THEN Some(HirName(unwrap(name))) ELSE None,
     docs |-> docs]

TypeAlias(name, docs) ==
    [kind |-> "TypeAlias", name |-> HirName(name), docs |-> docs]

(* Parameter lists as hir reports them: the self parameter is the first    *)
(* entry of params when the function has one.                              *)
ParamShapes ==
    { [params |-> <<>>, has_self |-> FALSE],
      [params |-> <<"&self">>, has_self |-> TRUE],
      [params |-> <<"x: u32">>, has_self |-> FALSE],
      [params |-> <<"&self", "x: u32">>, has_self |-> TRUE] }

DocSet == { None, Some("Documented.") }

(* Items of the traits used to exercise the name and kind matching. *)
MatchPool ==
    { Function("foo", <<>>, FALSE, <<>>, None, <<>>, None),
      Function("bar", <<"&self">>, TRUE, <<>>, None, <<>>, None),
      Const(Some("foo"), None),
      Const(None, None),
      TypeAlias("foo", None) }

(* Items of the traits used to exercise the stub synthesis. *)
StubPool ==
    { Function("foo", sh.params, sh.has_self, g, r, w, d) :
        sh \in ParamShapes, g \in { <<>>, <<"T">> }, r \in { None, Some("u32") },
        w \in { <<>>, <<"T: Into<String>">> }, d \in DocSet }
    \cup { TypeAlias(n, d) : n \in { "Output", "foo" }, d \in DocSet }

(* Trait::items: every item carries its position in the trait. *)
WithIds(items) == [k \in 1..Len(items) |-> [id |-> k, item |-> items[k]]]

----------------------------------------------------------------------------
(* The syntactic side: the impl block (ast::ImplBlock).                    *)

ImplItem(kind, name) ==
    [kind |-> kind, name |-> IF is_some(name) THEN Some(AstName(unwrap(name))) ELSE None]

ImplPool ==
    { ImplItem("FnDef", Some("foo")), ImplItem("FnDef", Some("bar")),
      ImplItem("FnDef", None), ImplItem("ConstDef", Some("foo")),
      ImplItem("TypeAliasDef", Some("foo")) }

(* The type reference after `impl`: a path type (with or without a path)   *)
(* or some other type syntax.                                              *)
TargetRefs ==
    { None,
      Some([kind |-> "REFERENCE_TYPE"]),
      Some([kind |-> "PATH_TYPE", path |-> None]),
      Some([kind |-> "PATH_TYPE", path |-> Some("Test")]),
      Some([kind |-> "PATH_TYPE", path |-> Some("T1")]),
      Some([kind |-> "PATH_TYPE", path |-> Some("x")]),
      Some([kind |-> "PATH_TYPE", path |-> Some("Missing")]) }

TraitRef == Some([kind |-> "PATH_TYPE", path |-> Some("Test")])

ImplBlock(item_list, target) == [item_list |-> item_list, target_trait |-> target]

ItemList(items) == [impl_items |-> items]

(* SourceAnalyzer::resolve_path in the scope of the request: Test is a     *)
(* trait, T1 a struct, x a local binding, anything else is unresolved.     *)
resolve_path(db, path) ==
    CASE path = "Test" -> Some([res |-> "Def", def |-> [kind |-> "Trait", id |-> "Test"]])
      [] path = "T1" -> Some([res |-> "Def", def |-> [kind |-> "Struct", id |-> "T1"]])
      [] path = "x" -> Some([res |-> "Local"])
      [] OTHER -> None

(* hir::Trait::items *)
items(trait, db) == db[trait.id]

----------------------------------------------------------------------------
(* The completion items.                                                   *)

Offsets == { 0, 138 }

(* CompletionContext::source_range *)
source_range(c) == [start |-> c.offset, end |-> c.offset]

CompletionItem_new(completion_kind, range, label) ==
    [completion_kind |-> completion_kind, source_range |-> range, label |-> label,
     lookup |-> None, insert_text |-> None, kind |-> None, documentation |-> None]

lookup_by(builder, text) == [builder EXCEPT !.lookup = Some(text)]
insert_text(builder, text) == [builder EXCEPT !.insert_text = Some(text)]
set_kind(builder, k) == [builder EXCEPT !.kind = Some(k)]
set_documentation(builder, docs) == [builder EXCEPT !.documentation = docs]
add_to(builder, a) == Append(a, builder)

(* What other completion sources may have left in the accumulator. *)
KeywordItem ==
    set_kind(insert_text(CompletionItem_new("Keyword", [start |-> 0, end |-> 0], "fn"),
                         "fn $0() {}"), "Keyword")

PriorAccs == { <<>>, <<KeywordItem>> }

----------------------------------------------------------------------------
(* crate::display::FunctionSignature and its Display implementation.       *)

RECURSIVE join(_, _)
join(s, sep) ==
    IF s = <<>> THEN ""
    ELSE IF Len(s) = 1 THEN s[1]
    ELSE s[1] \o sep \o join(Tail(s), sep)

FunctionSignature_from_hir(db, func) ==
    [name |-> Some(name_to_string(func.name)),
     generic_parameters |-> func.generic_parameters,
     parameters |-> func.params,
     ret_type |-> func.ret_type,
     where_predicates |-> func.where_predicates]

display_to_string(sig) ==
    (IF is_some(sig.name) THEN "fn " \o unwrap(sig.name) ELSE "")
    \o (IF sig.generic_parameters # <<>>
        THEN "<" \o join(sig.generic_parameters, ", ") \o ">" ELSE "")
    \o "(" \o join(sig.parameters, ", ") \o ")"
    \o (IF is_some(sig.ret_type) THEN " -> " \o unwrap(sig.ret_type) ELSE "")
    \o (IF sig.where_predicates # <<>>
        THEN "\nwhere " \o join(sig.where_predicates, ",\n      ") ELSE "")

----------------------------------------------------------------------------
(* The stub synthesis.                                                     *)

function_label_one_is_none(func) ==
    IF Len(func.params) > 1
    THEN "fn " \o name_to_string(func.name) \o "(..)"
    ELSE "fn " \o name_to_string(func.name) \o "()"

function_label(func) ==
    IF Len(func.params) > 0
    THEN "fn " \o name_to_string(func.name) \o "(..)"
    ELSE "fn " \o name_to_string(func.name) \o "()"

function_kind_by_params(func) ==
    IF Len(func.params) > 0 THEN "Method" ELSE "Function"

function_kind(func) ==
    IF func.has_self_param THEN "Method" ELSE "Function"

function_snippet_no_space(display) == display_to_string(display) \o "{}"

function_snippet(display) == display_to_string(display) \o " {}"

function_range_from_start(c) == [start |-> 0, end |-> c.offset]

function_range(c) == source_range(c)

add_function_impl(a, c, func) ==
    LET display == FunctionSignature_from_hir(c.db, func)
        label == function_label(func)
        builder == set_documentation(
                       lookup_by(CompletionItem_new("Magic", function_range(c), label), label),
                       func.docs)
        completion_kind == function_kind(func)
        snippet == function_snippet(display)
    IN  add_to(set_kind(insert_text(builder, snippet), completion_kind), a)

type_alias_snippet_no_space(type_alias) ==
    "type " \o name_to_string(type_alias.name) \o " ="

type_alias_snippet(type_alias) == "type " \o name_to_string(type_alias.name) \o " = "

type_alias_range(c) == source_range(c)

add_type_alias_impl(a, c, type_alias) ==
    LET snippet == type_alias_snippet(type_alias)
    IN  add_to(set_documentation(
                   set_kind(insert_text(CompletionItem_new("Magic", type_alias_range(c), snippet),
                                        snippet),
                            "TypeAlias"),
                   type_alias.docs),
               a)

----------------------------------------------------------------------------
(* The target resolver.                                                    *)

PathType_cast(node) == IF node.kind = "PATH_TYPE" THEN Some(node) ELSE None

resolves_to_any_def(resolution) ==
    /\ is_some(resolution)
    /\ unwrap(resolution).res = "Def"

resolves_to_trait(resolution) ==
    /\ is_some(resolution)
    /\ unwrap(resolution).res = "Def"
    /\ unwrap(resolution).def.kind = "Trait"

resolve_target_trait(db, analyzer, impl_block) ==
    IF is_none(impl_block.target_trait) THEN None
    ELSE LET path_type == PathType_cast(unwrap(impl_block.target_trait))
         IN  IF is_none(path_type) THEN None
             ELSE IF is_none(unwrap(path_type).path) THEN None
             ELSE LET ast_path == unwrap(unwrap(path_type).path)
                      resolution == resolve_path(db, ast_path)
                  IN  IF resolves_to_trait(resolution)
                      THEN Some(unwrap(resolution).def)
                      ELSE None

----------------------------------------------------------------------------
(* The missing-item filter: the closure passed to filter().                *)

fn_matches_unnamed(f_name, impl_item) ==
    IF impl_item.kind = "FnDef"
    THEN IF is_some(impl_item.name)
         THEN f_name = syntax_to_string(unwrap(impl_item.name))
         ELSE TRUE
    ELSE FALSE

fn_matches(f_name, impl_item) ==
    IF impl_item.kind = "FnDef"
    THEN IF is_some(impl_item.name)
         THEN f_name = syntax_to_string(unwrap(impl_item.name))
         ELSE FALSE
    ELSE FALSE

const_matches(c_name, impl_item) ==
    IF impl_item.kind = "ConstDef"
    THEN IF is_some(impl_item.name)
         THEN c_name = syntax_to_string(unwrap(impl_item.name))
         ELSE FALSE
    ELSE FALSE

type_alias_matches_any_kind(t_name, impl_item) ==
    IF is_some(impl_item.name)
    THEN t_name = syntax_to_string(unwrap(impl_item.name))
    ELSE FALSE

type_alias_matches(t_name, impl_item) ==
    IF impl_item.kind = "TypeAliasDef"
    THEN IF is_some(impl_item.name)
         THEN t_name = syntax_to_string(unwrap(impl_item.name))
         ELSE FALSE
    ELSE FALSE

is_missing(item_list, i) ==
    CASE i.kind = "Function" ->
            LET f_name == name_to_string(i.name)
                hit == [k \in 1..Len(item_list.impl_items) |->
                       fn_matches(f_name, item_list.impl_items[k])]
            IN  is_none(find(item_list.impl_items, hit))
      [] i.kind = "Const" ->
            IF is_none(i.name) THEN FALSE
            ELSE LET c_name == name_to_string(unwrap(i.name))
                     hit == [k \in 1..Len(item_list.impl_items) |->
                            const_matches(c_name, item_list.impl_items[k])]
                 IN  is_none(find(item_list.impl_items, hit))
      [] i.kind = "TypeAlias" ->
            LET t_name == name_to_string(i.name)
                hit == [k \in 1..Len(item_list.impl_items) |->
                       type_alias_matches(t_name, item_list.impl_items[k])]
            IN  is_none(find(item_list.impl_items, hit))

add_item_with_const(a, c, item) ==
    CASE item.kind = "Function" -> add_function_impl(a, c, item)
      [] item.kind = "TypeAlias" -> add_type_alias_impl(a, c, item)
      [] OTHER -> add_to(set_kind(CompletionItem_new("Magic", source_range(c), "const"),
                                  "Const"), a)

(* The match of the for loop: which add_* a missing item is handed to. *)
add_item(a, c, item) ==
    CASE item.kind = "Function" -> add_function_impl(a, c, item)
      [] item.kind = "TypeAlias" -> add_type_alias_impl(a, c, item)
      [] OTHER -> a

(* The for loop over missing_items: the accumulator after the loop, and    *)
(* the ids of the trait items that pushed a completion item.               *)
RECURSIVE for_missing_items(_, _, _)
for_missing_items(st, c, missing) ==
    IF missing = <<>> THEN st
    ELSE LET entry == Head(missing)
             a == add_item(st.acc, c, entry.item)
         IN  for_missing_items(
                 [acc |-> a,
                  origin |-> IF Len(a) > Len(st.acc) THEN Append(st.origin, entry.id)
                             ELSE st.origin],
                 c, Tail(missing))

----------------------------------------------------------------------------
(* The handler.                                                            *)

gate_closed_anywhere(item_list, impl_block, function_syntax) ==
    is_none(item_list) \/ is_none(impl_block)

gate_closed(item_list, impl_block, function_syntax) ==
    is_none(item_list) \/ is_none(impl_block) \/ is_some(function_syntax)

complete_trait_impl ==
    /\ pc = "start"
    /\ LET impl_block == ctx.impl_block
           item_list == IF is_some(impl_block) THEN unwrap(impl_block).item_list ELSE None
       IN  IF gate_closed(item_list, impl_block, ctx.function_syntax)
           THEN /\ pc' = "returned"
                /\ UNCHANGED <<ctx, acc, target_trait, missing_items, origin, resolve_calls>>
           ELSE IF is_none(item_list) \/ is_none(impl_block)
           THEN \* item_list.unwrap() or impl_block.unwrap() on None
                /\ pc' = "panicked"
                /\ UNCHANGED <<ctx, acc, target_trait, missing_items, origin, resolve_calls>>
           ELSE LET the_list == unwrap(item_list)
                    the_block == unwrap(impl_block)
                    found == resolve_target_trait(ctx.db, ctx.analyzer, the_block)
                IN  /\ resolve_calls' = resolve_calls + 1
                    /\ target_trait' = found
                    /\ pc' = "returned"
                    /\ IF is_none(found)
                       THEN UNCHANGED <<ctx, acc, missing_items, origin>>
                       ELSE LET trait_items == items(unwrap(found), ctx.db)
                                keep(entry) == is_missing(the_list, entry.item)
                                missing == SelectSeq(trait_items, keep)
                                after == for_missing_items(
                                             [acc |-> acc, origin |-> origin], ctx, missing)
                            IN  /\ missing_items' = missing
                                /\ acc' = after.acc
                                /\ origin' = after.origin
                                /\ UNCHANGED ctx

----------------------------------------------------------------------------
(* The requests.                                                           *)

Context(impl_block, function_syntax, offset, trait_items) ==
    [impl_block |-> impl_block, function_syntax |-> function_syntax, offset |-> offset,
     analyzer |-> "scope",
     db |-> [t \in { "Test", "T1" } |-> IF t = "Test" THEN WithIds(trait_items) ELSE <<>>]]

(* Requests inside `impl Test for T1 { .. }`: every trait against every    *)
(* impl item list.                                                         *)
MatchRequest ==
    \E trait_items \in SeqsUpTo(MatchPool, MaxTraitItems),
       impl_items \in SeqsUpTo(ImplPool, MaxImplItems) :
        ctx = Context(Some(ImplBlock(Some(ItemList(impl_items)), TraitRef)),
                      None, 138, trait_items)

(* Requests at every kind of cursor position and impl header. *)
GateBlocks ==
    { None }
    \cup { Some(ImplBlock(None, target)) : target \in TargetRefs }
    \cup { Some(ImplBlock(Some(ItemList(impl_items)), target)) :
             impl_items \in SeqsUpTo(ImplPool, MaxGateItems), target \in TargetRefs }

GateRequest ==
    \E impl_block \in GateBlocks, function_syntax \in { None, Some("FN_DEF") },
       trait_items \in SeqsUpTo(MatchPool, MaxGateItems) :
        ctx = Context(impl_block, function_syntax, 138, trait_items)

(* Requests whose trait declares functions and type aliases of every shape. *)
StubRequest ==
    \E trait_items \in SeqsUpTo(StubPool, MaxStubItems),
       impl_items \in SeqsUpTo({ ImplItem("FnDef", Some("bar")) }, 1),
       offset \in Offsets :
        ctx = Context(Some(ImplBlock(Some(ItemList(impl_items)), TraitRef)),
                      None, offset, trait_items)

Init ==
    /\ MatchRequest \/ GateRequest \/ StubRequest
    /\ acc \in PriorAccs
    /\ pc = "start"
    /\ target_trait = None
    /\ missing_items = <<>>
    /\ origin = <<>>
    /\ resolve_calls = 0

Next == complete_trait_impl

Spec == Init /\ [][Next]_vars

TypeOK ==
    /\ pc \in { "start", "returned", "panicked" }
    /\ resolve_calls \in 0..1
    /\ Len(origin) <= Len(acc)

----------------------------------------------------------------------------
(* Vocabulary of the properties.                                           *)

Returned == pc = "returned"

(* The engine ran: the gate was open and the trait resolved. *)
Ran == Returned /\ is_some(target_trait)

TraitEntries == ctx.db["Test"]

BlockItems == unwrap(unwrap(ctx.impl_block).item_list).impl_items

(* The completion items this request pushed, oldest first. *)
Added == SubSeq(acc, Len(acc) - Len(origin) + 1, Len(acc))

OriginItem(k) == TraitEntries[origin[k]].item

Range(s) == { s[k] : k \in 1..Len(s) }

SameKind(item, impl_item) ==
    <<item.kind, impl_item.kind>> \in
        { <<"Function", "FnDef">>, <<"Const", "ConstDef">>, <<"TypeAlias", "TypeAliasDef">> }

NameText(item) ==
    IF item.kind = "Const"
    THEN IF item.name = <<>> THEN <<>> ELSE <<item.name[1].text>>
    ELSE <<item.name.text>>

(* The impl block has an item of the same kind with exactly this name. *)
Provided(item) ==
    \E k \in 1..Len(BlockItems) :
        /\ SameKind(item, BlockItems[k])
        /\ BlockItems[k].name # <<>>
        /\ NameText(item) = <<BlockItems[k].name[1].syntax.text>>

Offerable == { k \in 1..Len(TraitEntries) :
                 TraitEntries[k].item.kind \in { "Function", "TypeAlias" } }

GateClosedCtx ==
    \/ ctx.impl_block = <<>>
    \/ ctx.impl_block[1].item_list = <<>>
    \/ ctx.function_syntax # <<>>

TargetIsTraitPath ==
    /\ ctx.impl_block # <<>>
    /\ ctx.impl_block[1].target_trait = <<[kind |-> "PATH_TYPE", path |-> <<"Test">>]>>

----------------------------------------------------------------------------
(* C1: when the engine runs on a trait with N function/type-alias items of *)
(* which the impl block provides the subset S by name and kind, it adds    *)
(* exactly N - |S| completion items, one per remaining function or type    *)
(* alias and no others, in the order of the trait's item list.             *)
C1_Completeness ==
    Ran =>
        LET S == { k \in Offerable : Provided(TraitEntries[k].item) }
        IN  /\ Len(Added) = Cardinality(Offerable) - Cardinality(S)
            /\ Len(origin) = Len(Added)
            /\ Range(origin) = Offerable \ S
            /\ \A i, j \in 1..Len(origin) : i < j => origin[i] < origin[j]
            /\ \A k \in 1..Len(origin) :
                   (Added[k].kind = <<"TypeAlias">>) <=> (OriginItem(k).kind = "TypeAlias")

C1_Witness ==
    /\ Ran
    /\ Len(Added) >= 2
    /\ \E k \in Offerable : Provided(TraitEntries[k].item)
    /\ acc # Added

(* C2 as stated: a trait item is left out of the missing items if and only *)
(* if the impl block has an item of the same kind and the same name.       *)
C2_Original ==
    Ran =>
        \A k \in 1..Len(TraitEntries) :
            (TraitEntries[k] \notin Range(missing_items)) <=> Provided(TraitEntries[k].item)

(* C2, amended: a function, a type alias or a named constant of the trait  *)
(* is left out of the missing items if and only if the impl block has an   *)
(* item of the same kind and the same name; an unnamed constant is always  *)
(* left out; and a function or type alias is offered exactly when no such  *)
(* impl item exists, so an impl item of another kind, of another name or   *)
(* without a name never suppresses a candidate.                            *)
C2_MatchByKindAndName ==
    Ran =>
        \A k \in 1..Len(TraitEntries) :
            LET item == TraitEntries[k].item
            IN  /\ IF item.kind = "Const" /\ item.name = <<>>
                   THEN TraitEntries[k] \notin Range(missing_items)
                   ELSE (TraitEntries[k] \notin Range(missing_items)) <=> Provided(item)
                /\ k \in Offerable => ((k \in Range(origin)) <=> ~Provided(item))

C2_Witness ==
    /\ Ran
    /\ \E k \in Range(origin) :
           \E j \in 1..Len(BlockItems) :
               /\ BlockItems[j].name # <<>>
               /\ NameText(TraitEntries[k].item) = <<BlockItems[j].name[1].syntax.text>>
               /\ ~SameKind(TraitEntries[k].item, BlockItems[j])
    /\ \E k \in 1..Len(TraitEntries) :
           /\ TraitEntries[k].item.kind = "Const"
           /\ TraitEntries[k].item.name = <<>>

(* C3: no completion item originates from a constant of the trait, named   *)
(* or unnamed, provided by the impl block or not.                          *)
C3_NoConstCandidate ==
    /\ Len(origin) <= Len(acc)
    /\ \A k \in 1..Len(origin) : OriginItem(k).kind # "Const"
    /\ \A k \in 1..Len(Added) : Added[k].kind \in { <<"Function">>, <<"Method">>, <<"TypeAlias">> }
    /\ Ran => Len(Added) <= Cardinality(Offerable)

C3_Witness ==
    /\ Ran
    /\ Len(Added) >= 1
    /\ \E k \in 1..Len(TraitEntries) :
           /\ TraitEntries[k].item.kind = "Const"
           /\ TraitEntries[k].item.name # <<>>
           /\ TraitEntries[k] \in Range(missing_items)

(* C4: with no impl block, no item list, or the cursor inside a function,  *)
(* the handler returns with the accumulator unchanged, calls no trait      *)
(* resolution and does not fail.                                           *)
C4_GateClosed ==
    [][(pc = "start" /\ GateClosedCtx) =>
           /\ acc' = acc
           /\ resolve_calls' = resolve_calls
           /\ target_trait' = <<>>
           /\ pc' = "returned"]_vars

C4_Witness ==
    /\ Returned
    /\ ctx.function_syntax # <<>>
    /\ TargetIsTraitPath
    /\ ctx.impl_block[1].item_list = <<[impl_items |-> <<>>]>>
    /\ Offerable # {}
    /\ resolve_calls = 0
    /\ acc = <<KeywordItem>>

(* C5: the resolver yields a trait exactly when the impl block's target is *)
(* a path type with a path that resolves to a trait definition; in every   *)
(* other case the handler adds nothing.                                    *)
C5_ResolveTargetTrait ==
    [][(pc = "start" /\ ~GateClosedCtx) =>
           /\ resolve_calls' = 1
           /\ (target_trait' # <<>>) <=> TargetIsTraitPath
           /\ TargetIsTraitPath => target_trait' = <<[kind |-> "Trait", id |-> "Test"]>>
           /\ ~TargetIsTraitPath => (acc' = acc /\ origin' = <<>> /\ pc' = "returned")]_vars

C5_Witness ==
    /\ Returned
    /\ resolve_calls = 1
    /\ ctx.impl_block[1].target_trait = <<[kind |-> "PATH_TYPE", path |-> <<"T1">>]>>
    /\ Offerable # {}
    /\ target_trait = <<>>
    /\ acc = <<KeywordItem>>

(* C6: the label of a missing function foo is `fn foo()` when it has no    *)
(* parameters and `fn foo(..)` when it has one or more; generic parameters *)
(* and where clauses are not part of it.                                   *)
C6_FunctionLabel ==
    \A k \in 1..Len(origin) :
        OriginItem(k).kind = "Function" =>
            /\ OriginItem(k).params = <<>> =>
                   Added[k].label = "fn " \o OriginItem(k).name.text \o "()"
            /\ OriginItem(k).params # <<>> =>
                   Added[k].label = "fn " \o OriginItem(k).name.text \o "(..)"

C6_Witness ==
    \E k \in 1..Len(origin) :
        /\ OriginItem(k).kind = "Function"
        /\ OriginItem(k).generic_parameters # <<>>
        /\ OriginItem(k).where_predicates # <<>>
        /\ Added[k].label = "fn foo(..)"

(* C7: the insertion text of a missing function is its declared signature  *)
(* (name, generic parameters if any, parameter list, return type if any)    *)
(* followed by ` {}`; a where clause, when present, stands on a line of its *)
(* own between the signature and the body, and when absent the body follows *)
(* on the same line.                                                        *)
C7_FunctionSnippet ==
    \A k \in 1..Len(origin) :
        OriginItem(k).kind = "Function" =>
            LET f == OriginItem(k)
                generics == IF f.generic_parameters = <<>> THEN ""
                            ELSE "<" \o join(f.generic_parameters, ", ") \o ">"
                ret == IF f.ret_type = <<>> THEN "" ELSE " -> " \o f.ret_type[1]
                head == "fn " \o f.name.text \o generics
                            \o "(" \o join(f.params, ", ") \o ")" \o ret
            IN  Added[k].insert_text =
                    IF f.where_predicates = <<>>
                    THEN <<head \o " {}">>
                    ELSE <<head \o "\n" \o "where " \o join(f.where_predicates, ",\n      ")
                                \o " {}">>

C7_Witness ==
    \E k \in 1..Len(origin) :
        /\ OriginItem(k).kind = "Function"
        /\ Added[k].insert_text = <<"fn foo<T>()\nwhere T: Into<String> {}">>

(* C8: a missing type alias N yields the insertion text `type N = `, a     *)
(* label equal to it, the kind TypeAlias and the trait item's              *)
(* documentation.                                                          *)
C8_TypeAliasStub ==
    \A k \in 1..Len(origin) :
        OriginItem(k).kind = "TypeAlias" =>
            /\ Added[k].insert_text = <<"type " \o OriginItem(k).name.text \o " = ">>
            /\ <<Added[k].label>> = Added[k].insert_text
            /\ Added[k].kind = <<"TypeAlias">>
            /\ Added[k].documentation = OriginItem(k).docs

C8_Witness ==
    \E k \in 1..Len(origin) :
        /\ OriginItem(k).kind = "TypeAlias"
        /\ Added[k].label = "type Output = "
        /\ Added[k].documentation = <<"Documented.">>

(* C9: every completion item of the request has an empty source range at   *)
(* the cursor offset.                                                      *)
C9_PureInsertion ==
    \A k \in 1..Len(Added) :
        /\ Added[k].source_range.start = ctx.offset
        /\ Added[k].source_range.end = ctx.offset

C9_Witness ==
    /\ ctx.offset = 138
    /\ \E k \in 1..Len(origin) : OriginItem(k).kind = "Function"
    /\ \E k \in 1..Len(origin) : OriginItem(k).kind = "TypeAlias"

(* C10: the kind of a missing function's completion item is Method exactly *)
(* when the function has a self parameter and Function otherwise, whatever *)
(* its other parameters.                                                   *)
C10_MethodOrFunction ==
    \A k \in 1..Len(origin) :
        OriginItem(k).kind = "Function" =>
            /\ Added[k].kind \in { <<"Method">>, <<"Function">> }
            /\ (Added[k].kind = <<"Method">>) <=> OriginItem(k).has_self_param

C10_Witness ==
    \E k \in 1..Len(origin) :
        /\ OriginItem(k).kind = "Function"
        /\ ~OriginItem(k).has_self_param
        /\ Len(OriginItem(k).params) >= 1
        /\ Added[k].kind = <<"Function">>

====
